---- MODULE Spec2Model ----
(***************************************************************************)
(* A model of the three screens of the expo-audio application:            *)
(*   src/app/index.tsx   VoiceChatScreen (record, message list, playback)  *)
(*   src/app/gemini.tsx  GeminiScreen    (text generation, read aloud)     *)
(*   src/app/speech.tsx  SpeechScreen    (text to speech)                  *)
(* Every handler is cut at its awaits: the part before an await is one     *)
(* action, the continuation after the awaited promise settles is another.  *)
(* State that a hook hands to a render (recorderState, status) is a        *)
(* snapshot of the platform object; it is refreshed by an action of its    *)
(* own, and handlers read the snapshot of the render they were created in. *)
(***************************************************************************)
EXTENDS Integers, Sequences, FiniteSets

(***************************************************************************)
(* Bounds of the model.                                                    *)
(***************************************************************************)
MaxTaps == 4          \* presses of the record button (recording runs)
MaxTicks == 2         \* advances of the wall clock (recording runs)
MaxPlayTaps == 2      \* presses of the record button (playback runs)
MaxPlayTicks == 1     \* advances of the wall clock (playback runs)
MaxPresses == 2       \* presses of a play control (playback runs)
MaxQueue == 1         \* utterances the speech engine holds

(***************************************************************************)
(* Program constants.                                                      *)
(***************************************************************************)
BotDelay == 1000      \* setTimeout(..., 1000)
TimerInterval == 1000 \* setInterval(..., 1000)

\* The clock advances in steps of these sizes (ms). A timer fires at its
\* due time or later, never earlier.
TickSteps == {1, BotDelay}

Null == "null"
Uris == {"clipA", "clipB"}

VARIABLES
  now,               \* Date.now()
  ticksLeft,         \* clock advances the run still makes
  recording,         \* audioRecorder: the platform recorder is recording
  recUri,            \* audioRecorder.uri
  recorderState,     \* recorderState.isRecording of the current render
  recordingTime,     \* useState recordingTime
  recordingTimerRef, \* recordingTimerRef.current holds a live interval
  intervalDue,       \* when that interval fires next (0 without an interval)
  messages,          \* useState messages
  calls,             \* handleRecord invocations suspended at their await
  timers,            \* pending setTimeout callbacks, in scheduling order
  tapsLeft,          \* presses of the record button the run still makes
  origin,            \* history: origin[i] = the handleRecord invocation that created messages[i]
  stoppedClips,      \* history: recordings the platform stopped with a clip
  playing,           \* playing[i]: the platform player of messages[i] is playing
  status,            \* status[i]: status.playing of the current render of item i
  position,          \* position[i]: 0 = at the start, 1 = further on
  pressesLeft,       \* presses of a play control the run still makes
  prompt,            \* GeminiScreen: useState prompt
  apiKey,            \* GeminiScreen: useState apiKey
  generatedText,     \* GeminiScreen: useState generatedText
  isGenerating,      \* GeminiScreen: useState isGenerating
  inFlight,          \* fetch calls of handleGenerate that have not settled
  text,              \* SpeechScreen: useState text
  isSpeaking,        \* isSpeaking[s]: useState isSpeaking of screen s
  checking,          \* checking[s]: checkSpeaking of screen s, suspended at its await
  stopping,          \* stopping[s]: handleStop of screen s, suspended at its await
  engineSpeaking,    \* what Speech.isSpeakingAsync() answers
  queue,             \* utterances handed to the engine and not finished
  alerts,            \* the Alert.alert dialogs on display, oldest first
  pitch,             \* SpeechScreen: useState pitch, in hundredths
  rate,              \* SpeechScreen: useState rate, in hundredths
  mounted,           \* mounted[s]: screen s is mounted (its interval is set)
  stopped            \* history: stopped[s] = handleStop of screen s has completed
                     \* and Speech.speak has not been called since; kept for
                     \* the screens a run observes (the domain of stopped)

recVars == <<now, ticksLeft, recording, recUri, recorderState, recordingTime,
             recordingTimerRef, intervalDue, messages, calls, timers, tapsLeft,
             origin, stoppedClips, playing, status, position, pressesLeft>>

knobs == <<pitch, rate>>

talkVars == <<prompt, apiKey, generatedText, isGenerating, inFlight, text,
              isSpeaking, checking, stopping, engineSpeaking, queue, alerts,
              knobs, mounted, stopped>>

vars == <<recVars, talkVars>>

(***************************************************************************)
(* Pure helpers of index.tsx.                                              *)
(***************************************************************************)
\* Number.prototype.toString on a non-negative integer: its decimal digits.
DigitChars == <<"0", "1", "2", "3", "4", "5", "6", "7", "8", "9">>

RECURSIVE ToString(_)
ToString(n) ==
  IF n < 10 THEN <<DigitChars[n + 1]>>
            ELSE Append(ToString(n \div 10), DigitChars[(n % 10) + 1])

\* const duration = recordingTime || 1
Duration(t) == IF t = 0 THEN 1 ELSE t

\* the userMessage literal of handleRecord
UserMessage(t, uri, duration) ==
  [id |-> ToString(t), uri |-> uri, from |-> "user", durationSec |-> duration]

\* a faulty variant of BotMessage: it reads the recorder at expiry instead of the closure
BotMessageFromRecorder(t, timer) ==
  [id |-> ToString(t + 1), uri |-> recUri, from |-> "bot", durationSec |-> Duration(recordingTime)]

\* a faulty variant of BotMessage: it reuses the id of the user message
BotMessageSameId(t, timer) ==
  [id |-> ToString(timer.due - BotDelay), uri |-> timer.uri, from |-> "bot",
   durationSec |-> timer.duration]

\* the botMessage literal of the setTimeout callback; t is Date.now() at expiry,
\* timer holds the uri and duration captured by the closure
BotMessage(t, timer) ==
  [id |-> ToString(t + 1), uri |-> timer.uri, from |-> "bot", durationSec |-> timer.duration]

\* a faulty variant of AppendMessage: the new message goes to the front
AppendMessagePrepend(prev, m) == <<m>> \o prev

\* setMessages((prev) => [...prev, m])
AppendMessage(prev, m) == Append(prev, m)

clock == <<now, ticksLeft>>
recorder == <<recording, recUri>>
render == <<recorderState, recordingTime, recordingTimerRef, intervalDue>>
list == <<messages, origin>>
players == <<playing, status, position>>

\* The screen as first rendered: useState([]), useState(0), useRef(null).
RecInitBase ==
  /\ now = 0
  /\ recording = FALSE
  /\ recUri = Null
  /\ recorderState = FALSE
  /\ recordingTime = 0
  /\ recordingTimerRef = FALSE
  /\ intervalDue = 0
  /\ messages = <<>>
  /\ calls = {}
  /\ timers = <<>>
  /\ origin = <<>>
  /\ stoppedClips = 0
  /\ playing = <<>>
  /\ status = <<>>
  /\ position = <<>>

\* A new list item mounts with a fresh player: not playing, at the start.
MountItem ==
  /\ playing' = Append(playing, FALSE)
  /\ status' = Append(status, FALSE)
  /\ position' = Append(position, 0)

(***************************************************************************)
(* The wall clock.                                                         *)
(***************************************************************************)
Tick ==
  /\ UNCHANGED talkVars
  /\ ticksLeft > 0
  /\ \E d \in TickSteps : now' = now + d
  /\ ticksLeft' = ticksLeft - 1
  /\ UNCHANGED <<recorder, render, list, players, calls, timers, tapsLeft,
                 stoppedClips, pressesLeft>>

(***************************************************************************)
(* useAudioRecorderState: the render receives the recorder's status; the   *)
(* effect on [recorderState.isRecording] runs when the flag changed.       *)
(***************************************************************************)
RecorderStateUpdate ==
  /\ UNCHANGED talkVars
  /\ recorderState' = recording
  /\ IF recorderState' # recorderState
       THEN /\ recordingTime' = 0
            /\ recordingTimerRef' = recorderState'
            /\ intervalDue' = IF recorderState' THEN now + TimerInterval ELSE 0
       ELSE UNCHANGED <<recordingTime, recordingTimerRef, intervalDue>>
  /\ UNCHANGED <<clock, recorder, list, players, calls, timers, tapsLeft,
                 stoppedClips, pressesLeft>>

\* setInterval(() => setRecordingTime((prev) => prev + 1), 1000)
RecordingTimerTick ==
  /\ UNCHANGED talkVars
  /\ recordingTimerRef
  /\ intervalDue <= now
  /\ recordingTime' = recordingTime + 1
  /\ intervalDue' = intervalDue + TimerInterval
  /\ UNCHANGED <<clock, recorder, recorderState, recordingTimerRef, list, players,
                 calls, timers, tapsLeft, stoppedClips, pressesLeft>>

(***************************************************************************)
(* handleRecord, up to its first await. The branch and the recordingTime   *)
(* are those of the render the handler belongs to. k names the invocation. *)
(***************************************************************************)
HandleRecord ==
  /\ UNCHANGED talkVars
  /\ tapsLeft > 0
  /\ tapsLeft' = tapsLeft - 1
  /\ calls' = calls \cup
       {[pc |-> IF recorderState THEN "stop" ELSE "prepare",
         recordingTime |-> recordingTime, k |-> tapsLeft]}
  /\ UNCHANGED <<clock, recorder, render, list, players, timers, stoppedClips,
                 pressesLeft>>

\* a faulty variant of StopResolved: the bot reply is scheduled and the user
\* message is not added
StopResolvedBotOnly(c) ==
  /\ UNCHANGED talkVars
  /\ c \in calls /\ c.pc = "stop"
  /\ calls' = calls \ {c}
  /\ recording' = FALSE
  /\ stoppedClips' = IF recording /\ recUri # Null THEN stoppedClips + 1 ELSE stoppedClips
  /\ IF recUri # Null
       THEN timers' = Append(timers, [due |-> now + BotDelay, uri |-> recUri,
                                      duration |-> Duration(c.recordingTime), k |-> c.k])
       ELSE UNCHANGED timers
  /\ UNCHANGED <<clock, recUri, render, list, players, tapsLeft, pressesLeft>>

\* await audioRecorder.stop() resolved: the rest of the stop branch
StopResolved(c) ==
  /\ UNCHANGED talkVars
  /\ c \in calls /\ c.pc = "stop"
  /\ calls' = calls \ {c}
  /\ recording' = FALSE
  /\ stoppedClips' = IF recording /\ recUri # Null THEN stoppedClips + 1 ELSE stoppedClips
  /\ IF recUri # Null
       THEN /\ messages' = AppendMessage(messages,
                             UserMessage(now, recUri, Duration(c.recordingTime)))
            /\ origin' = Append(origin, c.k)
            /\ MountItem
            /\ timers' = Append(timers, [due |-> now + BotDelay, uri |-> recUri,
                                         duration |-> Duration(c.recordingTime), k |-> c.k])
       ELSE UNCHANGED <<list, players, timers>>
  /\ UNCHANGED <<clock, recUri, render, tapsLeft, pressesLeft>>

\* await audioRecorder.stop() rejected (the recorder was not recording):
\* handleRecord ends there
StopRejected(c) ==
  /\ UNCHANGED talkVars
  /\ c \in calls /\ c.pc = "stop"
  /\ ~recording
  /\ calls' = calls \ {c}
  /\ UNCHANGED <<clock, recorder, render, list, players, timers, tapsLeft,
                 stoppedClips, pressesLeft>>

\* await audioRecorder.prepareToRecordAsync() resolved; audioRecorder.record().
\* The platform names the file of the new recording, or reports none.
PrepareResolved(c) ==
  /\ UNCHANGED talkVars
  /\ c \in calls /\ c.pc = "prepare"
  /\ calls' = calls \ {c}
  /\ recording' = TRUE
  /\ \E u \in Uris \cup {Null} : recUri' = u
  /\ UNCHANGED <<clock, render, list, players, timers, tapsLeft, stoppedClips,
                 pressesLeft>>

\* await audioRecorder.prepareToRecordAsync() rejected: handleRecord ends there
PrepareRejected(c) ==
  /\ UNCHANGED talkVars
  /\ c \in calls /\ c.pc = "prepare"
  /\ calls' = calls \ {c}
  /\ UNCHANGED <<clock, recorder, render, list, players, timers, tapsLeft,
                 stoppedClips, pressesLeft>>

\* the setTimeout callback of handleRecord
BotTimerFire ==
  /\ UNCHANGED talkVars
  /\ timers # <<>>
  /\ Head(timers).due <= now
  /\ messages' = AppendMessage(messages, BotMessage(now, Head(timers)))
  /\ origin' = Append(origin, Head(timers).k)
  /\ MountItem
  /\ timers' = Tail(timers)
  /\ UNCHANGED <<clock, recorder, render, calls, tapsLeft, stoppedClips, pressesLeft>>

(***************************************************************************)
(* VoiceMessageItem. position is 0 at the start of the clip and 1 at its   *)
(* end.                                                                    *)
(***************************************************************************)
Items == 1..Len(messages)

\* a faulty variant of HandlePlay: it pauses when the render says paused
HandlePlayInverted(i) ==
  /\ UNCHANGED talkVars
  /\ pressesLeft > 0
  /\ pressesLeft' = pressesLeft - 1
  /\ IF ~status[i]
       THEN /\ playing' = [playing EXCEPT ![i] = FALSE]
            /\ UNCHANGED position
       ELSE /\ position' = [position EXCEPT ![i] = 0]
            /\ playing' = [playing EXCEPT ![i] = TRUE]
  /\ UNCHANGED <<clock, recorder, render, list, status, calls, timers, tapsLeft,
                 stoppedClips>>

\* handlePlay of item i: isPlaying is status.playing of the item's render
HandlePlay(i) ==
  /\ UNCHANGED talkVars
  /\ pressesLeft > 0
  /\ pressesLeft' = pressesLeft - 1
  /\ IF status[i]
       THEN /\ playing' = [playing EXCEPT ![i] = FALSE]
            /\ UNCHANGED position
       ELSE /\ position' = [position EXCEPT ![i] = 0]
            /\ playing' = [playing EXCEPT ![i] = TRUE]
  /\ UNCHANGED <<clock, recorder, render, list, status, calls, timers, tapsLeft,
                 stoppedClips>>

\* useAudioPlayerStatus delivers the player's status to the item's render
PlayerStatusUpdate(i) ==
  /\ UNCHANGED talkVars
  /\ status[i] # playing[i]
  /\ status' = [status EXCEPT ![i] = playing[i]]
  /\ UNCHANGED <<clock, recorder, render, list, playing, position, calls, timers,
                 tapsLeft, stoppedClips, pressesLeft>>

\* the clip plays to its end
PlaybackEnd(i) ==
  /\ UNCHANGED talkVars
  /\ playing[i]
  /\ playing' = [playing EXCEPT ![i] = FALSE]
  /\ position' = [position EXCEPT ![i] = 1]
  /\ UNCHANGED <<clock, recorder, render, list, status, calls, timers, tapsLeft,
                 stoppedClips, pressesLeft>>

\* the steps in which every awaited platform promise resolves
RecFlow ==
  \/ Tick
  \/ RecorderStateUpdate
  \/ RecordingTimerTick
  \/ HandleRecord
  \/ \E c \in calls : StopResolved(c)
  \/ \E c \in calls : PrepareResolved(c)
  \/ BotTimerFire

RecNext ==
  \/ RecFlow
  \/ \E c \in calls : StopRejected(c)
  \/ \E c \in calls : PrepareRejected(c)

VoiceNext ==
  \/ RecFlow
  \/ \E i \in Items : HandlePlay(i)
  \/ \E i \in Items : PlayerStatusUpdate(i)
  \/ \E i \in Items : PlaybackEnd(i)

(***************************************************************************)
(* Strings are sequences of characters; " " stands for the white space     *)
(* String.prototype.trim removes.                                          *)
(***************************************************************************)
RECURSIVE TrimStart(_)
TrimStart(s) == IF s # <<>> /\ Head(s) = " " THEN TrimStart(Tail(s)) ELSE s

RECURSIVE TrimEnd(_)
TrimEnd(s) ==
  IF s # <<>> /\ s[Len(s)] = " " THEN TrimEnd(SubSeq(s, 1, Len(s) - 1)) ELSE s

\* a faulty variant of Trim: whitespace is kept
TrimNothing(s) == s

\* s.trim()
Trim(s) == TrimEnd(TrimStart(s))

\* a faulty variant of IsBlank: only the empty string is blank
IsBlankUntrimmed(s) == s = <<>>

\* !s.trim()
IsBlank(s) == Trim(s) = <<>>

\* what the user can type into a text field
Inputs == {<<>>, <<" ">>, <<"a">>, <<" ", "a", " ">>}

\* the initial prompt and the initial text are sentences
InitialPrompt == <<"a">>
InitialText == <<"a">>

\* JavaScript's undefined, where a string is expected
Undefined == <<"undefined">>

\* a value is truthy: neither undefined nor the empty string
Truthy(v) == v # Undefined /\ v # <<>>

(***************************************************************************)
(* The alerts of gemini.tsx and speech.tsx (their message argument).       *)
(***************************************************************************)
PromptRequired == <<"enter a prompt">>
ApiKeyRequired == <<"enter the Gemini API key">>
NothingToRead == <<"there is no text to read aloud">>
TextRequired == <<"enter a text">>
UnknownError == <<"an unknown error occurred">>
SpeechError == <<"speech synthesis error: ", "e">>
Fallback == <<"the text could not be generated">>

\* `APIエラー: ${response.status}`
StatusMessage(st) == <<"API error: ">> \o ToString(st)

\* messages of the errors the runtime throws
SyntaxErrorMessage == <<"JSON Parse error">>
TypeErrorMessage == <<"TypeError: cannot read a property of null">>
NetworkErrorMessage == <<"Network request failed">>

(***************************************************************************)
(* HTTP responses. A body is unparsable, the JSON value null, or a JSON    *)
(* object; of an object the model keeps candidates (each candidate is the  *)
(* list of the text fields of its content.parts; an absent list is the     *)
(* empty one) and error (error.message, Undefined when absent).            *)
(***************************************************************************)
Statuses == {200, 400, 503}

\* response.ok
Ok(st) == st \in 200..299

CandidateLists ==
  { <<>>,                              \* no candidates
    << <<>> >>,                        \* a candidate without parts
    << <<Undefined>> >>,               \* a part without text
    << << <<>> >> >>,                  \* text: ""
    << << <<" ">> >> >>,               \* text: " "
    << << <<"b">>, <<"c">> >> >>,      \* two parts
    << << <<"b">> >>, << <<"c">> >> >> \* two candidates
  }

ErrorFields == {Undefined, <<>>, <<"q">>}

Bodies ==
  {[kind |-> "invalid", candidates |-> <<>>, error |-> Undefined],
   [kind |-> "null", candidates |-> <<>>, error |-> Undefined]}
  \cup {[kind |-> "object", candidates |-> c, error |-> Undefined] : c \in CandidateLists}
  \cup {[kind |-> "object", candidates |-> <<>>, error |-> e] : e \in ErrorFields}

Responses == {[status |-> st, body |-> b] : st \in Statuses, b \in Bodies}

\* data.candidates?.[0]?.content?.parts?.[0]?.text
ExtractText(data) ==
  IF data.candidates = <<>> THEN Undefined
  ELSE IF data.candidates[1] = <<>> THEN Undefined
  ELSE data.candidates[1][1]

\* a faulty variant of TextOrFallback: ?? in place of ||
TextOrFallbackNullish(t) == IF t # Undefined THEN t ELSE Fallback

\* t || "テキストを生成できませんでした"
TextOrFallback(t) == IF Truthy(t) THEN t ELSE Fallback

\* The message of the error thrown for a response that is not ok:
\* errorData = await response.json().catch(() => ({}));
\* errorData.error?.message || `APIエラー: ${response.status}`
ErrorMessage(r) ==
  IF r.body.kind = "invalid" THEN StatusMessage(r.status)
  ELSE IF r.body.kind = "null" THEN TypeErrorMessage
  ELSE IF Truthy(r.body.error) THEN r.body.error
  ELSE StatusMessage(r.status)

\* What the try block of handleGenerate comes to once fetch has resolved
\* with r: the text it hands to setGeneratedText, or the message of the
\* error it throws.
Outcome(r) ==
  IF ~Ok(r.status) THEN [thrown |-> TRUE, value |-> ErrorMessage(r)]
  ELSE IF r.body.kind = "invalid" THEN [thrown |-> TRUE, value |-> SyntaxErrorMessage]
  ELSE IF r.body.kind = "null" THEN [thrown |-> TRUE, value |-> TypeErrorMessage]
  ELSE [thrown |-> FALSE, value |-> TextOrFallback(ExtractText(r.body))]

\* what fetch rejects with: an Error with a message, or some other value
Rejections == {"Error", "other"}

\* error instanceof Error ? error.message : "不明なエラーが発生しました"
CaughtMessage(e) == IF e = "Error" THEN NetworkErrorMessage ELSE UnknownError

Screens == {"gemini", "speech"}

(***************************************************************************)
(* Pitch and rate of SpeechScreen, in hundredths: 100 stands for 1.0. The  *)
(* values are floating-point numbers; the result of pitch - 0.1 is the     *)
(* exact difference up to a rounding error, which the model bounds by one  *)
(* hundredth either way.                                                   *)
(***************************************************************************)
InitialPitch == 100   \* useState(1.0)
InitialRate == 100    \* useState(1.0)
KnobMin == 50         \* Math.max(0.5, ...)
KnobMax == 200        \* Math.min(2.0, ...)
KnobStep == 10        \* ... - 0.1, ... + 0.1
Roundings == {-1, 0, 1}

\* Math.max(a, b), Math.min(a, b)
Max(a, b) == IF a >= b THEN a ELSE b
Min(a, b) == IF a <= b THEN a ELSE b

recIdle == <<now, recording, recUri, recorderState, recordingTime, recordingTimerRef,
             intervalDue, messages, calls, timers, origin, stoppedClips, playing,
             status, position, tapsLeft, ticksLeft, pressesLeft>>

\* Both screens as first rendered, the speech engine silent.
TalkInitBase ==
  /\ prompt = InitialPrompt
  /\ apiKey = <<>>
  /\ generatedText = <<>>
  /\ isGenerating = FALSE
  /\ inFlight = 0
  /\ text = InitialText
  /\ isSpeaking = [s \in Screens |-> FALSE]
  /\ checking = [s \in Screens |-> "idle"]
  /\ stopping = [s \in Screens |-> FALSE]
  /\ engineSpeaking = FALSE
  /\ queue = <<>>
  /\ alerts = <<>>
  /\ pitch = InitialPitch
  /\ rate = InitialRate
  /\ mounted = [s \in Screens |-> TRUE]

\* Alert.alert("エラー", m)
ShowAlert(m) == alerts' = Append(alerts, m)

\* A dialog is modal: while one is on display the controls of the screens
\* take no input.
Interactive == alerts = <<>>

\* the user closes the dialog on top
DismissAlert ==
  /\ alerts # <<>>
  /\ alerts' = SubSeq(alerts, 1, Len(alerts) - 1)
  /\ UNCHANGED <<recIdle, knobs, mounted, stopped, prompt, apiKey, generatedText, isGenerating, inFlight, text,
                 isSpeaking, checking, stopping, engineSpeaking, queue>>

(***************************************************************************)
(* The text fields.                                                        *)
(***************************************************************************)
SetPrompt(v) ==
  /\ Interactive /\ mounted["gemini"]
  /\ v # prompt
  /\ prompt' = v
  /\ UNCHANGED <<recIdle, knobs, mounted, stopped, apiKey, generatedText, isGenerating, inFlight, text,
                 isSpeaking, checking, stopping, engineSpeaking, queue, alerts>>

SetApiKey(v) ==
  /\ Interactive /\ mounted["gemini"]
  /\ v # apiKey
  /\ apiKey' = v
  /\ UNCHANGED <<recIdle, knobs, mounted, stopped, prompt, generatedText, isGenerating, inFlight, text,
                 isSpeaking, checking, stopping, engineSpeaking, queue, alerts>>

SetText(v) ==
  /\ Interactive /\ mounted["speech"]
  /\ v # text
  /\ text' = v
  /\ UNCHANGED <<recIdle, knobs, mounted, stopped, prompt, apiKey, generatedText, isGenerating, inFlight,
                 isSpeaking, checking, stopping, engineSpeaking, queue, alerts>>

\* a faulty variant of HandleGenerate: the button stays enabled while isGenerating
HandleGenerateAlwaysEnabled ==
  /\ Interactive /\ mounted["gemini"]
  /\ IF IsBlank(prompt)
       THEN /\ ShowAlert(PromptRequired)
            /\ UNCHANGED <<isGenerating, generatedText, inFlight>>
       ELSE IF IsBlank(apiKey)
         THEN /\ ShowAlert(ApiKeyRequired)
              /\ UNCHANGED <<isGenerating, generatedText, inFlight>>
         ELSE /\ isGenerating' = TRUE
              /\ generatedText' = <<>>
              /\ inFlight' = inFlight + 1
              /\ UNCHANGED <<alerts>>
  /\ UNCHANGED <<recIdle, knobs, mounted, stopped, prompt, apiKey, text, isSpeaking, checking, stopping,
                 engineSpeaking, queue>>

(***************************************************************************)
(* GeminiScreen: handleGenerate. The button is disabled while isGenerating.*)
(***************************************************************************)
HandleGenerate ==
  /\ Interactive /\ mounted["gemini"]
  /\ ~isGenerating
  /\ IF IsBlank(prompt)
       THEN /\ ShowAlert(PromptRequired)
            /\ UNCHANGED <<isGenerating, generatedText, inFlight>>
       ELSE IF IsBlank(apiKey)
         THEN /\ ShowAlert(ApiKeyRequired)
              /\ UNCHANGED <<isGenerating, generatedText, inFlight>>
         ELSE /\ isGenerating' = TRUE
              /\ generatedText' = <<>>
              /\ inFlight' = inFlight + 1
              /\ UNCHANGED <<alerts>>
  /\ UNCHANGED <<recIdle, knobs, mounted, stopped, prompt, apiKey, text, isSpeaking, checking, stopping,
                 engineSpeaking, queue>>

\* a faulty variant of FetchResolved: no finally block after a thrown error
FetchResolvedNoFinally(r) ==
  /\ inFlight > 0
  /\ inFlight' = inFlight - 1
  /\ IF Outcome(r).thrown
       THEN /\ ShowAlert(Outcome(r).value)
            /\ UNCHANGED <<generatedText, isGenerating>>
       ELSE /\ generatedText' = Outcome(r).value
            /\ isGenerating' = FALSE
            /\ UNCHANGED <<alerts>>
  /\ UNCHANGED <<recIdle, knobs, mounted, stopped, prompt, apiKey, text, isSpeaking, checking, stopping,
                 engineSpeaking, queue>>

\* fetch resolved with r: the rest of the try block, catch and finally
FetchResolved(r) ==
  /\ inFlight > 0
  /\ inFlight' = inFlight - 1
  /\ IF Outcome(r).thrown
       THEN /\ ShowAlert(Outcome(r).value)
            /\ UNCHANGED generatedText
       ELSE /\ generatedText' = Outcome(r).value
            /\ UNCHANGED <<alerts>>
  /\ isGenerating' = FALSE
  /\ UNCHANGED <<recIdle, knobs, mounted, stopped, prompt, apiKey, text, isSpeaking, checking, stopping,
                 engineSpeaking, queue>>

\* a faulty variant of FetchRejected: the request stays in flight
FetchRejectedRetry(e) ==
  /\ inFlight > 0
  /\ ShowAlert(CaughtMessage(e))
  /\ UNCHANGED <<recIdle, knobs, mounted, stopped, prompt, apiKey, generatedText, isGenerating, inFlight, text,
                 isSpeaking, checking, stopping, engineSpeaking, queue>>

\* fetch rejected with e: catch and finally
FetchRejected(e) ==
  /\ inFlight > 0
  /\ inFlight' = inFlight - 1
  /\ ShowAlert(CaughtMessage(e))
  /\ isGenerating' = FALSE
  /\ UNCHANGED <<recIdle, knobs, mounted, stopped, prompt, apiKey, generatedText, text, isSpeaking, checking,
                 stopping, engineSpeaking, queue>>

(***************************************************************************)
(* The speech engine (expo-speech), shared by the two screens.             *)
(***************************************************************************)
\* Speech.speak(t, {onStart, onDone, onError}) from screen s
Speak(t, s) ==
  /\ Len(queue) < MaxQueue
  /\ queue' = Append(queue, [text |-> t, owner |-> s])
  /\ stopped' = [x \in DOMAIN stopped |-> FALSE]

\* Speech.stop()
EngineStop ==
  /\ queue' = <<>>
  /\ engineSpeaking' = FALSE

\* setIsSpeaking(v) of screen s; on a screen that is no longer mounted it
\* changes nothing
SetIsSpeaking(s, v) ==
  isSpeaking' = IF mounted[s] THEN [isSpeaking EXCEPT ![s] = v] ELSE isSpeaking

\* the engine starts the next utterance: onStart
UtteranceStart ==
  /\ queue # <<>> /\ ~engineSpeaking
  /\ engineSpeaking' = TRUE
  /\ SetIsSpeaking(Head(queue).owner, TRUE)
  /\ UNCHANGED <<recIdle, knobs, mounted, stopped, prompt, apiKey, generatedText, isGenerating, inFlight, text,
                 checking, stopping, queue, alerts>>

\* the engine finishes the utterance: onDone
UtteranceDone ==
  /\ queue # <<>> /\ engineSpeaking
  /\ engineSpeaking' = FALSE
  /\ queue' = Tail(queue)
  /\ SetIsSpeaking(Head(queue).owner, FALSE)
  /\ UNCHANGED <<recIdle, knobs, mounted, stopped, prompt, apiKey, generatedText, isGenerating, inFlight, text,
                 checking, stopping, alerts>>

\* the engine fails on the utterance: onError
UtteranceError ==
  /\ queue # <<>>
  /\ engineSpeaking' = FALSE
  /\ queue' = Tail(queue)
  /\ ShowAlert(SpeechError)
  /\ SetIsSpeaking(Head(queue).owner, FALSE)
  /\ UNCHANGED <<recIdle, knobs, mounted, stopped, prompt, apiKey, generatedText, isGenerating, inFlight, text,
                 checking, stopping>>

(***************************************************************************)
(* handleSpeak. The button is disabled while isSpeaking; on GeminiScreen   *)
(* it is rendered only while generatedText is not empty.                   *)
(***************************************************************************)
GeminiHandleSpeak ==
  /\ Interactive /\ mounted["gemini"]
  /\ generatedText # <<>>
  /\ ~isSpeaking["gemini"]
  /\ IF IsBlank(generatedText)
       THEN /\ ShowAlert(NothingToRead)
            /\ UNCHANGED <<queue, stopped>>
       ELSE /\ Speak(generatedText, "gemini")
            /\ UNCHANGED <<alerts>>
  /\ UNCHANGED <<recIdle, knobs, mounted, prompt, apiKey, generatedText, isGenerating, inFlight, text,
                 isSpeaking, checking, stopping, engineSpeaking>>

SpeechHandleSpeak ==
  /\ Interactive /\ mounted["speech"]
  /\ ~isSpeaking["speech"]
  /\ IF IsBlank(text)
       THEN /\ ShowAlert(TextRequired)
            /\ UNCHANGED <<queue, stopped>>
       ELSE /\ Speak(text, "speech")
            /\ UNCHANGED <<alerts>>
  /\ UNCHANGED <<recIdle, knobs, mounted, prompt, apiKey, generatedText, isGenerating, inFlight, text,
                 isSpeaking, checking, stopping, engineSpeaking>>

(***************************************************************************)
(* checkSpeaking, every 500 ms on each screen: the await, then the rest.   *)
(***************************************************************************)
CheckSpeakingBegin(s) ==
  /\ mounted[s]
  /\ checking[s] = "idle"
  /\ checking' = [checking EXCEPT ![s] = IF engineSpeaking THEN "true" ELSE "false"]
  /\ UNCHANGED <<recIdle, knobs, mounted, stopped, prompt, apiKey, generatedText, isGenerating, inFlight, text,
                 isSpeaking, stopping, engineSpeaking, queue, alerts>>

\* a faulty variant of CheckSpeakingEnd: the answer of the engine is dropped
CheckSpeakingEndDropped(s) ==
  /\ checking[s] # "idle"
  /\ UNCHANGED isSpeaking
  /\ checking' = [checking EXCEPT ![s] = "idle"]
  /\ UNCHANGED <<recIdle, knobs, mounted, stopped, prompt, apiKey, generatedText, isGenerating, inFlight, text,
                 stopping, engineSpeaking, queue, alerts>>

\* const speaking = await ...: resolved; setIsSpeaking(speaking)
CheckSpeakingEnd(s) ==
  /\ checking[s] # "idle"
  /\ SetIsSpeaking(s, checking[s] = "true")
  /\ checking' = [checking EXCEPT ![s] = "idle"]
  /\ UNCHANGED <<recIdle, knobs, mounted, stopped, prompt, apiKey, generatedText, isGenerating, inFlight, text,
                 stopping, engineSpeaking, queue, alerts>>

(***************************************************************************)
(* handleStop (its button shows, or is enabled, while isSpeaking) and      *)
(* handleClear of GeminiScreen.                                            *)
(***************************************************************************)
HandleStop(s) ==
  /\ Interactive /\ mounted[s]
  /\ isSpeaking[s] /\ ~stopping[s]
  /\ s = "gemini" => generatedText # <<>>
  /\ EngineStop
  /\ stopping' = [stopping EXCEPT ![s] = TRUE]
  /\ UNCHANGED <<recIdle, knobs, mounted, stopped, prompt, apiKey, generatedText, isGenerating, inFlight, text,
                 isSpeaking, checking, alerts>>

\* await Speech.stop() resolved: setIsSpeaking(false)
HandleStopDone(s) ==
  /\ stopping[s]
  /\ stopping' = [stopping EXCEPT ![s] = FALSE]
  /\ SetIsSpeaking(s, FALSE)
  /\ stopped' = [x \in DOMAIN stopped |-> (x = s) \/ stopped[x]]
  /\ UNCHANGED <<recIdle, knobs, mounted, prompt, apiKey, generatedText, isGenerating, inFlight, text,
                 checking, engineSpeaking, queue, alerts>>

HandleClear ==
  /\ Interactive /\ mounted["gemini"]
  /\ generatedText # <<>>
  /\ generatedText' = <<>>
  /\ EngineStop
  /\ UNCHANGED <<recIdle, knobs, mounted, stopped, prompt, apiKey, isGenerating, inFlight, text, isSpeaking,
                 checking, stopping, alerts>>

(***************************************************************************)
(* The pitch and rate buttons of SpeechScreen.                             *)
(***************************************************************************)
\* a faulty variant of PitchMinus: without Math.max
PitchMinusUnclamped(e) ==
  /\ Interactive /\ mounted["speech"]
  /\ pitch' = pitch - KnobStep + e
  /\ UNCHANGED <<recIdle, rate, mounted, stopped, prompt, apiKey, generatedText,
                 isGenerating, inFlight, text, isSpeaking, checking, stopping,
                 engineSpeaking, queue, alerts>>

\* setPitch(Math.max(0.5, pitch - 0.1)); e is the rounding error of the difference
PitchMinus(e) ==
  /\ Interactive /\ mounted["speech"]
  /\ pitch' = Max(KnobMin, pitch - KnobStep + e)
  /\ UNCHANGED <<recIdle, rate, mounted, stopped, prompt, apiKey, generatedText,
                 isGenerating, inFlight, text, isSpeaking, checking, stopping,
                 engineSpeaking, queue, alerts>>

\* setPitch(Math.min(2.0, pitch + 0.1))
PitchPlus(e) ==
  /\ Interactive /\ mounted["speech"]
  /\ pitch' = Min(KnobMax, pitch + KnobStep + e)
  /\ UNCHANGED <<recIdle, rate, mounted, stopped, prompt, apiKey, generatedText,
                 isGenerating, inFlight, text, isSpeaking, checking, stopping,
                 engineSpeaking, queue, alerts>>

\* setRate(Math.max(0.5, rate - 0.1))
RateMinus(e) ==
  /\ Interactive /\ mounted["speech"]
  /\ rate' = Max(KnobMin, rate - KnobStep + e)
  /\ UNCHANGED <<recIdle, pitch, mounted, stopped, prompt, apiKey, generatedText,
                 isGenerating, inFlight, text, isSpeaking, checking, stopping,
                 engineSpeaking, queue, alerts>>

\* setRate(Math.min(2.0, rate + 0.1))
RatePlus(e) ==
  /\ Interactive /\ mounted["speech"]
  /\ rate' = Min(KnobMax, rate + KnobStep + e)
  /\ UNCHANGED <<recIdle, pitch, mounted, stopped, prompt, apiKey, generatedText,
                 isGenerating, inFlight, text, isSpeaking, checking, stopping,
                 engineSpeaking, queue, alerts>>

(***************************************************************************)
(* A screen is unmounted: the cleanup of its effect clears the interval.   *)
(* A checkSpeaking that is suspended at its await still runs to its end.   *)
(***************************************************************************)
Unmount(s) ==
  /\ mounted[s]
  /\ mounted' = [mounted EXCEPT ![s] = FALSE]
  /\ UNCHANGED <<recIdle, knobs, stopped, prompt, apiKey, generatedText, isGenerating,
                 inFlight, text, isSpeaking, checking, stopping, engineSpeaking, queue,
                 alerts>>

(***************************************************************************)
(* The specifications.                                                     *)
(***************************************************************************)
RecIdle ==
  /\ RecInitBase
  /\ tapsLeft = 0 /\ ticksLeft = 0 /\ pressesLeft = 0

\* the history of handleStop is kept for the screens in S
Observed(S) == stopped = [s \in S |-> FALSE]

RecInit ==
  /\ Observed({})
  /\ RecInitBase
  /\ tapsLeft = MaxTaps
  /\ ticksLeft = MaxTicks
  /\ pressesLeft = 0
  /\ TalkInitBase

VoiceInit ==
  /\ Observed({})
  /\ RecInitBase
  /\ tapsLeft = MaxPlayTaps
  /\ ticksLeft = MaxPlayTicks
  /\ pressesLeft = MaxPresses
  /\ TalkInitBase

TalkInit ==
  /\ Observed({})
  /\ TalkInitBase
  /\ RecIdle

PollInit ==
  /\ Observed(Screens)
  /\ TalkInitBase
  /\ RecIdle

GenNext ==
  \/ \E v \in Inputs : SetPrompt(v)
  \/ \E v \in Inputs : SetApiKey(v)
  \/ HandleGenerate
  \/ \E r \in Responses : FetchResolved(r)
  \/ \E e \in Rejections : FetchRejected(e)
  \/ HandleClear
  \/ DismissAlert

TalkNext ==
  \/ \E v \in Inputs : SetApiKey(v)
  \/ HandleGenerate
  \/ \E r \in Responses : FetchResolved(r)
  \/ \E e \in Rejections : FetchRejected(e)
  \/ HandleClear
  \/ DismissAlert
  \/ \E v \in Inputs : SetText(v)
  \/ GeminiHandleSpeak
  \/ SpeechHandleSpeak
  \/ UtteranceStart
  \/ UtteranceDone
  \/ UtteranceError
  \/ \E s \in Screens : CheckSpeakingBegin(s)
  \/ \E s \in Screens : CheckSpeakingEnd(s)
  \/ \E s \in Screens : HandleStop(s)
  \/ \E s \in Screens : HandleStopDone(s)

\* The recording screen without presses of a play control.
SpecRec == RecInit /\ [][RecNext]_vars

\* The recording screen with its play controls, on shorter runs in which no
\* platform promise rejects.
SpecVoice == VoiceInit /\ [][VoiceNext]_vars

\* The generation screen without its read-aloud controls.
SpecGen == TalkInit /\ [][GenNext]_vars

\* the promise of fetch settles: it resolves with a response or rejects
FetchSettled ==
  \/ \E r \in Responses : FetchResolved(r)
  \/ \E e \in Rejections : FetchRejected(e)

\* The generation screen when every request settles.
SpecGenLive == SpecGen /\ WF_vars(FetchSettled)

TuneNext ==
  \/ \E e \in Roundings : PitchMinus(e)
  \/ \E e \in Roundings : PitchPlus(e)
  \/ \E e \in Roundings : RateMinus(e)
  \/ \E e \in Roundings : RatePlus(e)

\* The pitch and rate buttons of the text-to-speech screen.
SpecTune == TalkInit /\ [][TuneNext]_vars

\* The text-to-speech screen speaks and stops while the interval of either
\* screen polls the engine; either screen may be unmounted.
PollNext ==
  \/ SpeechHandleSpeak
  \/ UtteranceStart
  \/ UtteranceDone
  \/ UtteranceError
  \/ \E s \in Screens : CheckSpeakingBegin(s)
  \/ \E s \in Screens : CheckSpeakingEnd(s)
  \/ \E s \in Screens : HandleStop(s)
  \/ \E s \in Screens : HandleStopDone(s)
  \/ DismissAlert
  \/ \E s \in Screens : Unmount(s)

\* setInterval(checkSpeaking, 500) fires again and again while the screen is
\* mounted, and the promise of Speech.isSpeakingAsync() resolves.
PollFairness ==
  \A s \in Screens : /\ WF_vars(CheckSpeakingBegin(s))
                      /\ WF_vars(CheckSpeakingEnd(s))

SpecPoll == PollInit /\ [][PollNext]_vars /\ PollFairness

\* The generation screen and the text-to-speech screen, which share the
\* speech engine.
SpecTalk == TalkInit /\ [][TalkNext]_vars

(***************************************************************************)
(* Properties of the recording screen.                                     *)
(***************************************************************************)
CountFrom(who) == Cardinality({i \in Items : messages[i].from = who})

\* no handleRecord invocation is suspended and every bot delay has elapsed
Quiescent == calls = {} /\ timers = <<>>

\* C2: once all delays have elapsed, the list holds exactly one user entry
\* and exactly one bot entry per recording that was stopped (with a clip).
C2_OnePairPerStoppedRecording ==
  Quiescent => /\ CountFrom("user") = stoppedClips
               /\ CountFrom("bot") = stoppedClips

\* C5 as stated: all entries of the message list have pairwise distinct ids.
C5_AllIdsDistinct ==
  \A i, j \in Items : i # j => messages[i].id # messages[j].id

\* C5 as amended: the entries created by one and the same stop (its user
\* entry and its bot entry) have distinct ids.
C5_PairIdsDistinct ==
  \A i, j \in Items : (i # j /\ origin[i] = origin[j]) => messages[i].id # messages[j].id

\* two complete pairs whose ids collide across the pairs
C5_Witness ==
  /\ Len(messages) = 4
  /\ \E i, j \in Items : i # j /\ origin[i] = origin[j]
  /\ \E i, j \in Items : i # j /\ origin[i] # origin[j] /\ messages[i].id = messages[j].id

\* C6: the message list is append-only: every step leaves the existing
\* entries in place and in order, and adds entries only at the end.
C6_AppendOnly ==
  [][/\ Len(messages') >= Len(messages)
     /\ SubSeq(messages', 1, Len(messages)) = messages]_vars

\* a list of two entries on which a play control has been pressed
C6_Witness == Len(messages) >= 2 /\ pressesLeft < MaxPresses /\ \E i \in Items : playing[i]

C9_BotEchoesUser ==
  \A i, j \in Items :
    (origin[i] = origin[j] /\ messages[i].from = "user" /\ messages[j].from = "bot")
      => /\ messages[j].uri = messages[i].uri
         /\ messages[j].durationSec = messages[i].durationSec

\* a bot entry that is not next to its user entry, after the recorder has
\* moved on to another file
C9_Witness ==
  \E i, j \in Items :
    /\ origin[i] = origin[j] /\ messages[i].from = "user" /\ messages[j].from = "bot"
    /\ j > i + 1
    /\ recUri # messages[j].uri

\* C13: the record button is a two-state toggle: handleRecord invoked while
\* the recorder is idle takes the start branch, which starts the recorder and
\* leaves the message list as it is; invoked while the recorder is recording
\* it takes the stop branch, which stops the recorder; the message list
\* changes only in the stop branch and in the bot reply it schedules.
C13_RecordButtonToggles ==
  [][/\ HandleRecord
          => \E c \in calls' \ calls : c.pc = IF recording THEN "stop" ELSE "prepare"
     /\ \A c \in calls : PrepareResolved(c) => (recording' /\ messages' = messages)
     /\ \A c \in calls : StopResolved(c) => ~recording'
     /\ messages' # messages => ((\E c \in calls : StopResolved(c)) \/ BotTimerFire)]_vars

\* the entries at positions before j that are the user entry of the stop
\* that created entry j
UserEntriesBefore(j) ==
  {i \in 1..(j - 1) : messages[i].from = "user" /\ origin[i] = origin[j]}

\* C16: every bot entry of the list has, at an earlier position, the user
\* entry created by the same stop, and at no later position; a pending bot
\* delay belongs to a stop whose user entry is in the list.
C16_UserBeforeBot ==
  /\ \A j \in Items : messages[j].from = "bot" =>
        /\ UserEntriesBefore(j) # {}
        /\ \A i \in Items : (messages[i].from = "user" /\ origin[i] = origin[j]) => i < j
  /\ \A t \in 1..Len(timers) :
        \E i \in Items : messages[i].from = "user" /\ origin[i] = timers[t].k

\* a second recording was stopped while the bot delay of the first was
\* pending: user, user, bot, bot
C16_Witness ==
  /\ Len(messages) = 4
  /\ messages[1].from = "user" /\ messages[2].from = "user"
  /\ messages[3].from = "bot" /\ messages[4].from = "bot"
  /\ origin[1] # origin[2] /\ origin[3] = origin[1] /\ origin[4] = origin[2]

(***************************************************************************)
(* Properties of the generation screen and of reading aloud.               *)
(***************************************************************************)
\* a string that is empty or consists of white space only
WhitespaceOnly(s) == \A i \in 1..Len(s) : s[i] = " "

\* the text field of the first part of the first candidate of a body
FirstText(b) ==
  IF Len(b.candidates) >= 1 /\ Len(b.candidates[1]) >= 1
    THEN b.candidates[1][1] ELSE Undefined

\* C1: handleGenerate with a prompt or an API key that is empty or white
\* space only issues no request: it shows one alert and leaves isGenerating
\* and generatedText as they are; a request is issued only with both filled.
C1_NoRequestOnBlankInput ==
  [][/\ (HandleGenerate /\ (WhitespaceOnly(prompt) \/ WhitespaceOnly(apiKey)))
          => /\ inFlight' = inFlight
             /\ isGenerating' = isGenerating
             /\ generatedText' = generatedText
             /\ alerts' = Append(alerts, IF WhitespaceOnly(prompt) THEN PromptRequired
                                                                   ELSE ApiKeyRequired)
     /\ (inFlight' > inFlight) => (~WhitespaceOnly(prompt) /\ ~WhitespaceOnly(apiKey))]_vars

\* the alert for a prompt of white space, no request issued
C1_Witness ==
  /\ alerts = <<PromptRequired>>
  /\ prompt # <<>> /\ WhitespaceOnly(prompt)
  /\ inFlight = 0 /\ ~isGenerating

\* C3 as stated, read for the ok responses whose body is a JSON object:
\* generatedText is the first text field when the body has one and the
\* fallback when it has none, and no alert is shown.
C3_TextWhenPresentElseFallback ==
  [][\A r \in Responses :
       (FetchResolved(r) /\ Ok(r.status) /\ r.body.kind = "object")
         => /\ generatedText' = IF FirstText(r.body) # Undefined THEN FirstText(r.body)
                                                                 ELSE Fallback
            /\ alerts' = alerts]_vars

\* C3 as amended: after an ok response whose body is a JSON object,
\* generatedText is the first text field when the body has one that is not
\* empty, and the fallback otherwise, with no alert; after an ok response
\* whose body is unparsable or null, one alert is shown and generatedText
\* stays as it is.
C3_TextWhenTruthyElseFallback ==
  [][\A r \in Responses :
       (FetchResolved(r) /\ Ok(r.status))
         => IF r.body.kind = "object"
              THEN /\ generatedText' = IF FirstText(r.body) \notin {Undefined, <<>>}
                                         THEN FirstText(r.body) ELSE Fallback
                   /\ alerts' = alerts
              ELSE /\ Len(alerts') = Len(alerts) + 1
                   /\ generatedText' = generatedText]_vars

\* the fallback on display after a generation, no alert
C3_Witness ==
  /\ generatedText = Fallback
  /\ alerts = <<>>
  /\ ~isGenerating /\ inFlight = 0

\* C4: after a response that is not ok the alert carries the server's error
\* message when the body has one, and otherwise the message with the status
\* code.
C4_ServerMessageElseStatus ==
  [][\A r \in Responses :
       (FetchResolved(r) /\ ~Ok(r.status))
         => alerts' = Append(alerts,
                        IF r.body.kind = "object" /\ r.body.error \notin {Undefined, <<>>}
                          THEN r.body.error ELSE StatusMessage(r.status))]_vars

\* the outcome of a failed generation: one more alert, the request gone,
\* generatedText empty, the button enabled again
C10_Failure ==
  /\ Len(alerts') = Len(alerts) + 1
  /\ inFlight' = inFlight - 1
  /\ generatedText' = <<>>
  /\ ~isGenerating'

\* C10: a validated handleGenerate issues exactly one request; a response
\* that is not ok and a rejected fetch each end in one alert, with no
\* further request and generatedText empty; requests come from handleGenerate
\* alone.
C10_NoRetry ==
  [][/\ (HandleGenerate /\ ~WhitespaceOnly(prompt) /\ ~WhitespaceOnly(apiKey))
          => inFlight' = inFlight + 1
     /\ \A r \in Responses : (FetchResolved(r) /\ ~Ok(r.status)) => C10_Failure
     /\ \A e \in Rejections : FetchRejected(e) => C10_Failure
     /\ (inFlight' > inFlight) => HandleGenerate]_vars

\* a rejected fetch has ended in its alert
C10_Witness ==
  /\ alerts = <<NetworkErrorMessage>>
  /\ generatedText = <<>>
  /\ inFlight = 0 /\ ~isGenerating

\* C8: Speech.speak is never called with a text that is empty or white space
\* only; handleSpeak of either screen, given such a text, shows its alert and
\* leaves the engine's queue and isSpeaking as they are.
C8_NeverSpeaksBlank ==
  [][/\ (Len(queue') > Len(queue)) => ~WhitespaceOnly(queue'[Len(queue')].text)
     /\ (GeminiHandleSpeak /\ WhitespaceOnly(generatedText))
          => /\ alerts' = Append(alerts, NothingToRead)
             /\ queue' = queue /\ isSpeaking' = isSpeaking
     /\ (SpeechHandleSpeak /\ WhitespaceOnly(text))
          => /\ alerts' = Append(alerts, TextRequired)
             /\ queue' = queue /\ isSpeaking' = isSpeaking]_vars

\* a generated text of white space was refused by handleSpeak
C8_Witness ==
  /\ alerts = <<NothingToRead>>
  /\ generatedText # <<>> /\ WhitespaceOnly(generatedText)
  /\ queue = <<>>

\* C14: at most one generation request is in flight at any time, it is in
\* flight exactly while isGenerating, and while isGenerating no step issues
\* a request.
C14_AtMostOneRequest ==
  /\ inFlight <= 1
  /\ isGenerating <=> inFlight = 1
  /\ isGenerating => ~ENABLED HandleGenerate

\* a request is in flight while the user has gone on editing the prompt
C14_Witness ==
  /\ inFlight = 1 /\ isGenerating
  /\ prompt # InitialPrompt
  /\ Interactive

\* C11: when every request settles, isGenerating once true becomes false
\* again, and whenever it is false (and no dialog is open) handleGenerate can
\* be invoked.
C11_GeneratingEnds ==
  /\ isGenerating ~> ~isGenerating
  /\ [](~isGenerating /\ Interactive => ENABLED HandleGenerate)

\* a generation has ended on a body that could not be parsed
C11_Witness ==
  /\ ~isGenerating /\ inFlight = 0
  /\ alerts = <<SyntaxErrorMessage>>
  /\ ~IsBlank(prompt) /\ ~IsBlank(apiKey)

\* the knob values, and everything but the knobs
KnobRange == KnobMin..KnobMax
Others == <<recVars, prompt, apiKey, generatedText, isGenerating, inFlight, text,
            isSpeaking, checking, stopping, engineSpeaking, queue, alerts, mounted>>

\* C17: pitch and rate stay within [0.5, 2.0]; a minus press at the lower
\* bound and a plus press at the upper bound leave the value as it is; a
\* press on a pitch button changes nothing but pitch, a press on a rate
\* button nothing but rate.
C17_KnobsStayInRange ==
  /\ [](pitch \in KnobRange /\ rate \in KnobRange)
  /\ [][\A e \in Roundings :
          /\ (PitchMinus(e) /\ pitch = KnobMin) => pitch' = pitch
          /\ (PitchPlus(e) /\ pitch = KnobMax) => pitch' = pitch
          /\ (RateMinus(e) /\ rate = KnobMin) => rate' = rate
          /\ (RatePlus(e) /\ rate = KnobMax) => rate' = rate
          /\ (PitchMinus(e) \/ PitchPlus(e)) => (rate' = rate /\ Others' = Others)
          /\ (RateMinus(e) \/ RatePlus(e)) => (pitch' = pitch /\ Others' = Others)]_vars

\* pitch has been brought down to the lower bound and rate up to the upper
C17_Witness == pitch = KnobMin /\ rate = KnobMax

\* C12: while a screen is mounted, a poll reads the engine's flag and then
\* copies what it read into isSpeaking of the screen; no poll begins on a
\* screen that is no longer mounted; and when the engine's flag stays at one
\* value for good while the screen is mounted, isSpeaking of the screen equals
\* that value again and again.
C12_PollCopiesEngineFlag ==
  /\ [][\A s \in Screens :
          /\ CheckSpeakingBegin(s)
               => (mounted[s] /\ checking'[s] = IF engineSpeaking THEN "true" ELSE "false")
          /\ (CheckSpeakingEnd(s) /\ mounted[s]) => isSpeaking'[s] = (checking[s] = "true")
          /\ (~mounted[s] /\ checking[s] = "idle") => checking'[s] = "idle"]_vars
  /\ \A s \in Screens : \A v \in BOOLEAN :
        <>[](mounted[s] /\ engineSpeaking = v) => []<>(isSpeaking[s] = v)

\* the generation screen shows the utterance of the text-to-speech screen as
\* speaking (only its poll can have told it), and the text-to-speech screen
\* has been unmounted with no poll under way
C12_Witness ==
  /\ engineSpeaking /\ queue # <<>> /\ Head(queue).owner = "speech"
  /\ mounted["gemini"] /\ isSpeaking["gemini"]
  /\ ~mounted["speech"] /\ checking["speech"] = "idle"

\* C15: once handleStop of a screen has completed, isSpeaking of that screen
\* is false until Speech.speak is called again.
C15_FalseAfterStop ==
  \A s \in DOMAIN stopped : (mounted[s] /\ stopped[s]) => ~isSpeaking[s]

====
